---- MODULE Spec2Model ----
(***************************************************************************)
(* Monte Carlo and closed-form pricing of European and down-and-out        *)
(* barrier calls under Black-Scholes (src/src/montecarlo.py and            *)
(* src/src/pricing_formulas.py).                                           *)
(*                                                                         *)
(* Numbers.  The code computes in binary floating point; the model         *)
(* computes in exact rationals (pairs <<numerator, denominator>> in lowest *)
(* terms), so a statement "equals exactly" is about the real-number value  *)
(* of the expression the code evaluates.  np.exp is modelled on arguments  *)
(* measured in units of ln 4: Exp(x) = 4^x, which is np.exp applied to     *)
(* x * ln 4.  A run of the model with rate r, volatility sigma and normal  *)
(* variate z is the run of the code with rate r * ln 4, volatility         *)
(* sigma * sqrt(ln 4) and variate z * sqrt(ln 4): every exponent the code  *)
(* forms is then ln 4 times the exponent the model forms.  np.sqrt is      *)
(* exact on the squares of rationals, and is kept symbolic (as the         *)
(* radicand) where the code takes the root of a sample variance.           *)
(***************************************************************************)
EXTENDS Integers, Sequences, FiniteSets, TLC

VARIABLES
    op,               \* the public operation being called
    n_samples,        \* argument n_samples: the requested shape, a tuple
    params,           \* argument params: a dictionary key -> scalar or array
    antithetic,       \* argument antithetic
    moment_matching,  \* argument moment_matching
    K,                \* argument K (strike) of the pricing operations
    H,                \* argument H (barrier) of the barrier operations
    rng,              \* what np.random.normal(size=n_samples) returns next
    pc,               \* "call" before the operation runs, "done" after it
    outcome,          \* "returned", or the exception that reached the caller
    normals,          \* local `samples` after the antithetic step
    increments,       \* trajectory: local `samples` with the initial 0
    BM_samples,       \* trajectory: local BM_samples
    drift,            \* trajectory: local drift
    GBM_samples,      \* trajectory: local GBM_samples as first assigned
    matched,          \* the local after the moment matching step
    batch,            \* the sample batch the sampler returned
    hit_barrier,      \* barrier estimator: local hit_barrier
    payoff,           \* estimators: local `samples` holding the payoffs
    estimate          \* the price estimate returned

Arguments == <<op, n_samples, params, antithetic, moment_matching, K, H, rng>>

TrajectoryLocals == <<increments, BM_samples, drift, GBM_samples>>

vars == <<Arguments, pc, outcome, normals, TrajectoryLocals, matched, batch,
          hit_barrier, payoff, estimate>>

-----------------------------------------------------------------------------
(* Exact rational arithmetic.  The operations are functions, so that an    *)
(* operand is evaluated once, before the operation is applied.             *)

Max(a, b) == IF a >= b THEN a ELSE b

Abs[x \in Int] == IF x < 0 THEN -x ELSE x

GCD[a \in Nat, b \in Nat] == IF b = 0 THEN a ELSE GCD[b, a % b]

\* the rationals: <<numerator, denominator>>, the denominator positive
Rat == Int \X (Nat \ {0})

\* n/g over d/g, g dividing both
Over[n \in Int, d \in Int, g \in Int] == <<n \div g, d \div g>>

\* n/d in lowest terms (d # 0)
Frac[n \in Int, d \in Int] ==
    IF d < 0 THEN Over[-n, -d, GCD[Abs[n], -d]] ELSE Over[n, d, GCD[Abs[n], d]]

FInt(n) == <<n, 1>>

\* x + y over the least common denominator, g being the greatest common
\* divisor of the two denominators
AddOver[x \in Rat, y \in Rat, g \in Int] ==
    Frac[x[1] * (y[2] \div g) + y[1] * (x[2] \div g), (x[2] \div g) * y[2]]

FAdd[x \in Rat, y \in Rat] == AddOver[x, y, GCD[x[2], y[2]]]

FNeg[x \in Rat] == <<-x[1], x[2]>>

FSub[x \in Rat, y \in Rat] == FAdd[x, FNeg[y]]

\* x * y, g and h being the greatest common divisors of a numerator and
\* the other denominator
MulOver[x \in Rat, y \in Rat, g \in Int, h \in Int] ==
    <<(x[1] \div g) * (y[1] \div h), (x[2] \div h) * (y[2] \div g)>>

FMul[x \in Rat, y \in Rat] ==
    MulOver[x, y, GCD[Abs[x[1]], y[2]], GCD[Abs[y[1]], x[2]]]

\* x / y for y # 0
FDiv[x \in Rat, y \in Rat] == FMul[x, Frac[y[2], y[1]]]

\* x < y: the sign of x - y
FLt[x \in Rat, y \in Rat] == FSub[x, y][1] < 0

FMax[x \in Rat, y \in Rat] == IF FLt[x, y] THEN y ELSE x

\* the sum of the n first values of the sequence f of rationals
RECURSIVE FSum(_, _)
FSum(f, n) == IF n = 0 THEN FInt(0) ELSE FAdd[FSum(f, n - 1), f[n]]

Pow[b \in Nat, k \in Nat] == IF k = 0 THEN 1 ELSE b * Pow[b, k - 1]

\* np.exp on an argument in units of ln 4: 4^x = 2^(2x), 2x an integer
Exp[x \in Rat] ==
    IF x[1] >= 0 THEN <<Pow[2, (2 * x[1]) \div x[2]], 1>>
    ELSE <<1, Pow[2, (2 * (-x[1])) \div x[2]]>>

\* np.sqrt on the square of a rational
ISqrt[k \in Nat] == CHOOSE s \in 0..k : s * s = k

Sqrt[x \in Rat] == <<ISqrt[x[1]], ISqrt[x[2]]>>

-----------------------------------------------------------------------------
(* numpy arrays: a shape (a tuple of axis lengths) and the data, a         *)
(* function from the index tuples (1-based) to the entries.  A scalar is   *)
(* the array of shape <<>>.                                                *)

\* the index tuples of an array of that shape (of at most 4 axes)
Indices(shape) ==
    CASE Len(shape) = 0 -> {<<>>}
      [] Len(shape) = 1 -> {<<i>> : i \in 1..shape[1]}
      [] Len(shape) = 2 -> (1..shape[1]) \X (1..shape[2])
      [] Len(shape) = 3 -> (1..shape[1]) \X (1..shape[2]) \X (1..shape[3])
      [] Len(shape) = 4 -> (1..shape[1]) \X (1..shape[2]) \X (1..shape[3])
                           \X (1..shape[4])

Scalar(v) == [shape |-> <<>>, data |-> [i \in {<<>>} |-> v]]

\* the shape standing for "operands could not be broadcast together"
NoShape == <<-1>>

\* the shape s without its last axis
Front(s) == SubSeq(s, 1, Len(s) - 1)

\* the axes in front, then the last axis; NoShape if those in front clash
Join[s \in Seq(Int), m \in Int] == IF s = NoShape THEN NoShape ELSE Append(s, m)

\* numpy's broadcasting rule for two operands of shapes a and b: aligned
\* from the last axis, the two lengths on an axis are equal or one is 1;
\* the result is NoShape where they clash (a ValueError)
Broadcast2[a \in Seq(Int), b \in Seq(Int)] ==
    IF a = NoShape \/ b = NoShape THEN NoShape
    ELSE IF a = <<>> THEN b
    ELSE IF b = <<>> THEN a
    ELSE IF a[Len(a)] # b[Len(b)] /\ a[Len(a)] # 1 /\ b[Len(b)] # 1 THEN NoShape
    ELSE Join[Broadcast2[Front(a), Front(b)], Max(a[Len(a)], b[Len(b)])]

\* the shape of an expression over operands of the n first shapes, one
\* binary operation after the other
RECURSIVE BroadcastFirst(_, _)
BroadcastFirst(shapes, n) ==
    IF n = 0 THEN <<>> ELSE Broadcast2[BroadcastFirst(shapes, n - 1), shapes[n]]

\* the shape of the result, or NoShape: the ValueError of a mismatch
Broadcast(shapes) == BroadcastFirst(shapes, Len(shapes))

\* the entry of A that broadcasting puts at index idx of a result
At(A, idx) ==
    A.data[[i \in 1..Len(A.shape) |->
              IF A.shape[i] = 1 THEN 1 ELSE idx[i + Len(idx) - Len(A.shape)]]]

\* what a local holds before it is assigned, and a result that was not returned
NoArray == [shape |-> NoShape, data |-> <<>>]

\* -samples
Negate(A) ==
    [shape |-> A.shape, data |-> [idx \in Indices(A.shape) |-> FNeg[A.data[idx]]]]

\* np.concatenate((A, B)): along axis 0, the other axes being equal
Concatenate(A, B) ==
    [shape |-> <<A.shape[1] + B.shape[1]>> \o Tail(A.shape),
     data |-> [idx \in Indices(<<A.shape[1] + B.shape[1]>> \o Tail(A.shape)) |->
                 IF idx[1] <= A.shape[1] THEN A.data[idx]
                 ELSE B.data[[idx EXCEPT ![1] = @ - A.shape[1]]]]]

\* np.mean(A, axis=0) of an array of rationals
Mean0(A) ==
    [shape |-> Tail(A.shape),
     data |-> [t \in Indices(Tail(A.shape)) |->
                 FDiv[FSum([i \in 1..A.shape[1] |-> A.data[<<i>> \o t]], A.shape[1]),
                      FInt(A.shape[1])]]]

\* np.std(A, axis=0) squared: the mean over axis 0 of |a - mean|^2.  The
\* standard deviation is its square root, kept symbolic.
Var0(A) ==
    [shape |-> Tail(A.shape),
     data |-> [t \in Indices(Tail(A.shape)) |->
                 FDiv[FSum([i \in 1..A.shape[1] |->
                              FMul[FSub[A.data[<<i>> \o t], Mean0(A).data[t]],
                                   FSub[A.data[<<i>> \o t], Mean0(A).data[t]]]],
                           A.shape[1]),
                      FInt(A.shape[1])]]]

-----------------------------------------------------------------------------
(* The variance reduction steps of get_samples_final_value.  A normal      *)
(* variate fed to the exponential map is a record [num, sq] standing for   *)
(* num / sqrt(sq); sq = 0 is a division by a zero standard deviation,      *)
(* which numpy answers with nan (0/0) or inf, not with an exception.       *)

\* line 32 with the sign forgotten: the drawn variates twice
AntitheticRepeated(samples) == Concatenate(samples, samples)

\* montecarlo.py line 32 and line 59
Antithetic(samples) == Concatenate(samples, Negate(samples))

\* line 35 without the centring: samples / std(samples, 0)
MomentMatchingNoCentre(samples) ==
    [shape |-> samples.shape,
     data |-> [idx \in Indices(samples.shape) |->
                 [num |-> samples.data[idx], sq |-> At(Var0(samples), idx)]]]

\* line 35 without the division: samples - mean(samples, 0)
MomentMatchingCentreOnly(samples) ==
    [shape |-> samples.shape,
     data |-> [idx \in Indices(samples.shape) |->
                 [num |-> FSub[samples.data[idx], At(Mean0(samples), idx)],
                  sq |-> FInt(1)]]]

\* montecarlo.py line 35: (samples - mean(samples, 0)) / std(samples, 0)
MomentMatching(samples) ==
    [shape |-> samples.shape,
     data |-> [idx \in Indices(samples.shape) |->
                 [num |-> FSub[samples.data[idx], At(Mean0(samples), idx)],
                  sq |-> At(Var0(samples), idx)]]]

\* samples left as drawn: each is itself over sqrt(1)
Unmatched(samples) ==
    [shape |-> samples.shape,
     data |-> [idx \in Indices(samples.shape) |->
                 [num |-> samples.data[idx], sq |-> FInt(1)]]]

IsNaN(z) == z.sq[1] = 0 /\ z.num[1] = 0

-----------------------------------------------------------------------------
(* The parameter dictionary.                                               *)

Keys == {"S0", "r", "sigma", "T"}

\* params["S0"], params["r"], params["sigma"], params["T"] each raise
\* KeyError when the key is absent
HasKeys(p) == Keys \subseteq DOMAIN p

\* r - sigma**2 / 2 at index idx of a result
HalfVar(p, idx) ==
    FSub[At(p["r"], idx),
         FDiv[FMul[At(p["sigma"], idx), At(p["sigma"], idx)], FInt(2)]]

-----------------------------------------------------------------------------
(* get_samples_final_value, montecarlo.py lines 10-42.  An entry of the    *)
(* returned batch is a record [scale, mu, vol, z] standing for             *)
(* scale * exp(mu + vol * z.num / sqrt(z.sq)): the exponent is irrational  *)
(* after moment matching, so the value is kept in this form.               *)

\* the shape of S0 * np.exp((r - sigma**2 / 2) * T + sigma * np.sqrt(T) * samples)
FinalShape(p, samples) ==
    Broadcast(<<p["S0"].shape, p["r"].shape, p["sigma"].shape, p["T"].shape,
                samples.shape>>)

\* line 42
FinalValues(p, samples) ==
    [shape |-> FinalShape(p, samples),
     data |-> [idx \in Indices(FinalShape(p, samples)) |->
                 [scale |-> At(p["S0"], idx),
                  mu |-> FMul[HalfVar(p, idx), At(p["T"], idx)],
                  vol |-> FMul[At(p["sigma"], idx), Sqrt[At(p["T"], idx)]],
                  z |-> At(samples, idx)]]]

\* how lines 37-42 end, samples being the local of line 35
FinalOutcome(p, samples) ==
    IF ~HasKeys(p) THEN "KeyError"
    ELSE IF FinalShape(p, samples) = NoShape THEN "ValueError"
    ELSE "returned"

-----------------------------------------------------------------------------
(* get_samples_trajectory, montecarlo.py lines 45-87.  Axis 1 (the second  *)
(* axis) is the time axis.                                                 *)

\* the shape without its time axis
DropAxis1(shape) == <<shape[1]>> \o SubSeq(shape, 3, Len(shape))

\* the index t of an array without time axis, at time index j
AtTime(t, j) == <<t[1], j>> \o SubSeq(t, 2, Len(t))

\* line 61: np.zeros((samples.shape[0], 1, *samples.shape[2:]))
Zeroes(samples) ==
    [shape |-> <<samples.shape[1], 1>> \o SubSeq(samples.shape, 3, Len(samples.shape)),
     data |-> [idx \in Indices(<<samples.shape[1], 1>>
                               \o SubSeq(samples.shape, 3, Len(samples.shape))) |->
                 FInt(0)]]

\* line 62: np.concat((A, B), axis=1)
ConcatAxis1(A, B) ==
    [shape |-> [A.shape EXCEPT ![2] = @ + B.shape[2]],
     data |-> [idx \in Indices([A.shape EXCEPT ![2] = @ + B.shape[2]]) |->
                 IF idx[2] <= A.shape[2] THEN A.data[idx]
                 ELSE B.data[[idx EXCEPT ![2] = @ - A.shape[2]]]]]

\* np.cumsum(A, axis=1)
CumSum1(A) ==
    [shape |-> A.shape,
     data |-> [idx \in Indices(A.shape) |->
                 FSum([j \in 1..idx[2] |-> A.data[[idx EXCEPT ![2] = j]]], idx[2])]]

\* line 71 without line 72: the drift counted from the initial index on
OnesEverywhere(samples) ==
    [shape |-> samples.shape,
     data |-> [idx \in Indices(samples.shape) |-> FInt(1)]]

\* lines 71-72: np.ones(samples.shape) with drift[:, 0] = 0
OnesAfterStart(samples) ==
    [shape |-> samples.shape,
     data |-> [idx \in Indices(samples.shape) |->
                 IF idx[2] = 1 THEN FInt(0) ELSE FInt(1)]]

\* T / n_samples[1] at index idx of a result
StepLen(n, p, idx) == FDiv[At(p["T"], idx), FInt(n[2])]

\* lines 75-78: the shape of
\* sigma * sqrt(T / n) * BM_samples + (r - sigma**2 / 2) * T / n * drift
GBMShape(p, BM, dr) ==
    Broadcast(<<p["sigma"].shape, p["T"].shape, BM.shape, p["r"].shape, dr.shape>>)

\* lines 75-78
GBM(n, p, BM, dr) ==
    [shape |-> GBMShape(p, BM, dr),
     data |-> [idx \in Indices(GBMShape(p, BM, dr)) |->
                 Exp[FAdd[FMul[FMul[At(p["sigma"], idx), Sqrt[StepLen(n, p, idx)]],
                               At(BM, idx)],
                          FMul[FDiv[FMul[HalfVar(p, idx), At(p["T"], idx)], FInt(n[2])],
                               At(dr, idx)]]]]]

\* lines 81-85: the shape of G * exp(r * T / n * drift) / mean(G, axis=0)
MatchedShape(p, dr, G) ==
    Broadcast(<<G.shape, p["r"].shape, p["T"].shape, dr.shape, Tail(G.shape)>>)

\* lines 81-85 without the factor exp(r * T / n * drift)
MatchMeanNoGrowth(n, p, dr, G) ==
    [shape |-> MatchedShape(p, dr, G),
     data |-> [idx \in Indices(MatchedShape(p, dr, G)) |->
                 FDiv[At(G, idx), At(Mean0(G), idx)]]]

\* lines 81-85: moment matching of the geometric Brownian paths
MatchMean(n, p, dr, G) ==
    [shape |-> MatchedShape(p, dr, G),
     data |-> [idx \in Indices(MatchedShape(p, dr, G)) |->
                 FDiv[FMul[At(G, idx),
                           Exp[FMul[FDiv[FMul[At(p["r"], idx), At(p["T"], idx)],
                                         FInt(n[2])],
                                    At(dr, idx)]]],
                      At(Mean0(G), idx)]]]

\* line 87: S0 * GBM_samples
TimesS0(p, G) ==
    [shape |-> Broadcast(<<p["S0"].shape, G.shape>>),
     data |-> [idx \in Indices(Broadcast(<<p["S0"].shape, G.shape>>)) |->
                 FMul[At(p["S0"], idx), At(G, idx)]]]

-----------------------------------------------------------------------------
(* The Monte Carlo estimators, montecarlo.py lines 93-126.                 *)

\* the shape of np.exp(-params["r"] * params["T"]) * np.mean(samples, axis=0)
EstimateShape(p, samples) ==
    Broadcast(<<p["r"].shape, p["T"].shape, Tail(samples.shape)>>)

\* np.exp(-params["r"] * params["T"]) at index idx of a result
Discount(p, idx) == Exp[FMul[FNeg[At(p["r"], idx)], At(p["T"], idx)]]

\* line 105: np.maximum(samples - K, 0) on a terminal batch, whose entries
\* are kept as [call, strike], standing for max(call - strike, 0)
EuropeanPayoff(samples, k) ==
    [shape |-> samples.shape,
     data |-> [idx \in Indices(samples.shape) |->
                 [call |-> samples.data[idx], strike |-> k]]]

\* the entries np.mean(A, axis=0) averages: for each index of the other
\* axes, the sequence of the entries along axis 0
Along0(A) ==
    [shape |-> Tail(A.shape),
     data |-> [t \in Indices(Tail(A.shape)) |->
                 [i \in 1..A.shape[1] |-> A.data[<<i>> \o t]]]]

\* line 107, an entry being [discount, mean_of]: discount * mean(mean_of)
EuropeanEstimate(p, samples) ==
    [shape |-> EstimateShape(p, samples),
     data |-> [idx \in Indices(EstimateShape(p, samples)) |->
                 [discount |-> Discount(p, idx),
                  mean_of |-> At(Along0(samples), idx)]]]

\* line 122 with <= for <: a path touching the barrier is knocked out
HitBarrierInclusive(samples, h) ==
    [shape |-> DropAxis1(samples.shape),
     data |-> [t \in Indices(DropAxis1(samples.shape)) |->
                 ~ \E j \in 1..samples.shape[2] :
                       ~FLt[h, samples.data[AtTime(t, j)]]]]

\* line 122: ~np.any(samples < H, axis=1)
HitBarrier(samples, h) ==
    [shape |-> DropAxis1(samples.shape),
     data |-> [t \in Indices(DropAxis1(samples.shape)) |->
                 ~ \E j \in 1..samples.shape[2] : FLt[samples.data[AtTime(t, j)], h]]]

\* samples[:, -1, :] is an IndexError on an array of fewer than 3 axes
CanTakeLast(samples) == Len(samples.shape) >= 3

\* line 124: samples[:, -1, :]
LastSlice(samples) ==
    [shape |-> DropAxis1(samples.shape),
     data |-> [t \in Indices(DropAxis1(samples.shape)) |->
                 samples.data[AtTime(t, samples.shape[2])]]]

\* line 124 without np.maximum: hit_barrier * (samples[:, -1, :] - K)
BarrierPayoffNoFloor(hit, samples, k) ==
    [shape |-> Broadcast(<<hit.shape, DropAxis1(samples.shape)>>),
     data |-> [t \in Indices(Broadcast(<<hit.shape, DropAxis1(samples.shape)>>)) |->
                 IF At(hit, t) THEN FSub[At(LastSlice(samples), t), k]
                 ELSE FInt(0)]]

\* line 124: hit_barrier * np.maximum(samples[:, -1, :] - K, 0)
BarrierPayoff(hit, samples, k) ==
    [shape |-> Broadcast(<<hit.shape, DropAxis1(samples.shape)>>),
     data |-> [t \in Indices(Broadcast(<<hit.shape, DropAxis1(samples.shape)>>)) |->
                 IF At(hit, t)
                 THEN FMax[FSub[At(LastSlice(samples), t), k], FInt(0)]
                 ELSE FInt(0)]]

\* line 126: np.exp(-params["r"] * params["T"]) * np.mean(samples, axis=0)
DiscountedMean(p, samples) ==
    [shape |-> EstimateShape(p, samples),
     data |-> [idx \in Indices(EstimateShape(p, samples)) |->
                 FMul[Discount(p, idx), At(Mean0(samples), idx)]]]

-----------------------------------------------------------------------------
(* The closed forms, pricing_formulas.py.  norm.cdf and np.log have no     *)
(* rational value: a price is kept as the formula and its arguments.       *)

\* the shape of an expression in which S0, r, sigma and T all occur
AllShape(p) ==
    Broadcast(<<p["S0"].shape, p["r"].shape, p["sigma"].shape, p["T"].shape>>)

\* how a closed form ends: lines 20-23 and 42-45 look the keys up
AnalyticOutcome(p) ==
    IF ~HasKeys(p) THEN "KeyError"
    ELSE IF AllShape(p) = NoShape THEN "ValueError"
    ELSE "returned"

\* pricing_formulas.py lines 25-27
EuropeanFormula(p, k) ==
    [shape |-> AllShape(p),
     data |-> [idx \in Indices(AllShape(p)) |->
                 [formula |-> "european_call", S0 |-> At(p["S0"], idx),
                  r |-> At(p["r"], idx), sigma |-> At(p["sigma"], idx),
                  T |-> At(p["T"], idx), K |-> k]]]

\* pricing_formulas.py lines 47-53
BarrierFormula(p, k, h) ==
    [shape |-> AllShape(p),
     data |-> [idx \in Indices(AllShape(p)) |->
                 [formula |-> "barrier_call",
                  european |-> EuropeanFormula(p, k).data[idx], H |-> h]]]

-----------------------------------------------------------------------------
(* The calls.  A behaviour is one call: Init chooses the operation, its    *)
(* arguments and the variates the generator is about to return; the        *)
(* operation's action runs it to its return or to the exception that       *)
(* reaches the caller, assigning the locals in the order of the code.  A   *)
(* local the call never assigned holds NoArray.                            *)

\* the longest axis of a requested shape
MaxAxis == 2

\* the most entries of a requested terminal shape
MaxCells == 4

\* the most entries of a requested trajectory shape
MaxPaths == 2

SamplerOps == {"get_samples_final_value", "get_samples_trajectory"}

TerminalOps == {"get_samples_final_value", "MC_european_call_price"}

TrajectoryOps == {"get_samples_trajectory", "MC_barrier_call_price"}

AnalyticOps == {"european_call_price", "barrier_call_price"}

Ops == TerminalOps \cup TrajectoryOps \cup AnalyticOps

RECURSIVE Cells(_)
Cells(shape) == IF shape = <<>> THEN 1 ELSE shape[1] * Cells(Tail(shape))

\* the shapes of lo to hi axes and at most cells entries
Shapes(lo, hi, cells) ==
    {s \in UNION {[1..k -> 1..MaxAxis] : k \in lo..hi} : Cells(s) <= cells}

\* terminal batches have 1 to 3 axes, trajectory batches 2 to 4
ShapesOf(o) ==
    IF o \in TerminalOps THEN Shapes(1, 3, MaxCells)
    ELSE IF o \in TrajectoryOps THEN Shapes(2, 4, MaxPaths)
    ELSE {<<1>>}

\* a parameter given as a 1-axis array of length len: the values of the
\* key alternate between two (a maturity keeps a unit time step)
Vec(key, len, t) ==
    [shape |-> <<len>>,
     data |-> [idx \in Indices(<<len>>) |->
                 CASE key = "S0" -> FInt(IF idx[1] % 2 = 1 THEN 1 ELSE 2)
                   [] key = "r" -> FInt(IF idx[1] % 2 = 1 THEN 0 ELSE 1)
                   [] key = "sigma" -> FInt(1)
                   [] OTHER -> FInt(t)]]

\* the keys given as arrays together
ArrayKeys == {{"S0"}, {"r"}, Keys}

\* the keys left out of the dictionary
MissingKeys == {{"S0"}, {"r"}, {"sigma"}, {"T"}}

\* an all-scalar dictionary, t being the maturity
Scalars(s, rr, t) ==
    [k \in Keys |->
        CASE k = "S0" -> Scalar(FInt(s))
          [] k = "r" -> Scalar(FInt(rr))
          [] k = "sigma" -> Scalar(FInt(1))
          [] OTHER -> Scalar(FInt(t))]

\* the dictionaries passed, by kind: all scalars; some keys as 1-axis
\* arrays of one length; one key missing
ParamRecords(kinds, t) ==
    (IF "scalar" \in kinds
     THEN {Scalars(s, rr, t) : s \in {1, 2}, rr \in {0, 1}} ELSE {})
    \cup (IF "array" \in kinds
          THEN {[k \in Keys |-> IF k \in a THEN Vec(k, len, t)
                                ELSE Scalars(1, 1, t)[k]] :
                  a \in ArrayKeys, len \in 1..(MaxAxis + 1)}
          ELSE {})
    \cup (IF "partial" \in kinds
          THEN {[k \in Keys \ m |-> Scalars(2, 1, t)[k]] : m \in MissingKeys}
          ELSE {})

\* the maturity: a trajectory has time steps of length 1, T = n_samples[1]
Maturity(o, n) == IF o \in TrajectoryOps THEN n[2] ELSE 1

Strikes(o) == IF o \in SamplerOps THEN {FInt(0)} ELSE {FInt(3)}

Barriers(o) ==
    IF o \in {"MC_barrier_call_price", "barrier_call_price"}
    THEN {FInt(1), FInt(2)} ELSE {FInt(0)}

Flags(o) == IF o \in AnalyticOps THEN {FALSE} ELSE BOOLEAN

\* np.random.normal(loc=0, scale=1, size=n): any array of that shape, here
\* with entries among zs
Draws(o, n, zs) ==
    IF o \in AnalyticOps THEN {NoArray}
    ELSE {[shape |-> n, data |-> d] : d \in [Indices(n) -> {FInt(z) : z \in zs}]}

\* a call of an operation among ops, with a dictionary of one of the kinds,
\* the variates drawn being among zs
InitCall(ops, kinds, zs) ==
    /\ op \in ops
    /\ n_samples \in ShapesOf(op)
    /\ params \in ParamRecords(kinds, Maturity(op, n_samples))
    /\ antithetic \in Flags(op)
    /\ moment_matching \in Flags(op)
    /\ K \in Strikes(op)
    /\ H \in Barriers(op)
    /\ rng \in Draws(op, n_samples, zs)
    /\ pc = "call"
    /\ outcome = "none"
    /\ normals = NoArray
    /\ increments = NoArray
    /\ BM_samples = NoArray
    /\ drift = NoArray
    /\ GBM_samples = NoArray
    /\ matched = NoArray
    /\ batch = NoArray
    /\ hit_barrier = NoArray
    /\ payoff = NoArray
    /\ estimate = NoArray

Assigned(A) == A.shape # NoShape

\* the body of get_samples_final_value, lines 28-42
SampleFinalValue ==
    /\ normals' = IF antithetic THEN Antithetic(rng) ELSE rng
    /\ matched' = IF moment_matching THEN MomentMatching(normals')
                  ELSE Unmatched(normals')
    /\ batch' = IF FinalOutcome(params, matched') = "returned"
                THEN FinalValues(params, matched') ELSE NoArray
    /\ UNCHANGED TrajectoryLocals

\* the body of get_samples_trajectory, lines 55-87
SampleTrajectory ==
    /\ normals' = IF antithetic THEN Antithetic(rng) ELSE rng
    /\ increments' = ConcatAxis1(Zeroes(normals'), normals')
    /\ BM_samples' = CumSum1(increments')
    /\ drift' = IF HasKeys(params) THEN CumSum1(OnesAfterStart(increments'))
                ELSE NoArray
    /\ GBM_samples' =
          IF HasKeys(params) /\ GBMShape(params, BM_samples', drift') # NoShape
          THEN GBM(n_samples, params, BM_samples', drift') ELSE NoArray
    /\ matched' =
          IF ~Assigned(GBM_samples') THEN NoArray
          ELSE IF ~moment_matching THEN GBM_samples'
          ELSE IF MatchedShape(params, drift', GBM_samples') = NoShape THEN NoArray
          ELSE MatchMean(n_samples, params, drift', GBM_samples')
    /\ batch' =
          IF Assigned(matched')
             /\ Broadcast(<<params["S0"].shape, matched'.shape>>) # NoShape
          THEN TimesS0(params, matched') ELSE NoArray

\* a sampler that reports a failed lookup as any other failure
SamplerOutcomeSwallowed(p, b) ==
    IF ~Assigned(b) THEN "ValueError" ELSE "returned"

\* how a sampler whose returned batch is b ends: a missing key is a
\* KeyError, a shape mismatch on the way a ValueError
SamplerOutcome(p, b) ==
    IF ~HasKeys(p) THEN "KeyError"
    ELSE IF ~Assigned(b) THEN "ValueError"
    ELSE "returned"

get_samples_final_value ==
    /\ pc = "call"
    /\ op = "get_samples_final_value"
    /\ SampleFinalValue
    /\ outcome' = SamplerOutcome(params, batch')
    /\ pc' = "done"
    /\ UNCHANGED <<Arguments, hit_barrier, payoff, estimate>>

get_samples_trajectory ==
    /\ pc = "call"
    /\ op = "get_samples_trajectory"
    /\ SampleTrajectory
    /\ outcome' = SamplerOutcome(params, batch')
    /\ pc' = "done"
    /\ UNCHANGED <<Arguments, hit_barrier, payoff, estimate>>

\* lines 102-107
MC_european_call_price ==
    /\ pc = "call"
    /\ op = "MC_european_call_price"
    /\ SampleFinalValue
    /\ payoff' = IF Assigned(batch') THEN EuropeanPayoff(batch', K) ELSE NoArray
    /\ estimate' = IF Assigned(payoff') /\ EstimateShape(params, payoff') # NoShape
                   THEN EuropeanEstimate(params, payoff') ELSE NoArray
    /\ outcome' = IF SamplerOutcome(params, batch') # "returned"
                  THEN SamplerOutcome(params, batch')
                  ELSE IF ~Assigned(estimate') THEN "ValueError"
                  ELSE "returned"
    /\ pc' = "done"
    /\ UNCHANGED <<Arguments, hit_barrier>>

\* lines 119-126
MC_barrier_call_price ==
    /\ pc = "call"
    /\ op = "MC_barrier_call_price"
    /\ SampleTrajectory
    /\ hit_barrier' = IF Assigned(batch') THEN HitBarrier(batch', H) ELSE NoArray
    /\ payoff' = IF Assigned(batch') /\ CanTakeLast(batch')
                 THEN BarrierPayoff(hit_barrier', batch', K) ELSE NoArray
    /\ estimate' = IF Assigned(payoff') /\ EstimateShape(params, payoff') # NoShape
                   THEN DiscountedMean(params, payoff') ELSE NoArray
    /\ outcome' = IF SamplerOutcome(params, batch') # "returned"
                  THEN SamplerOutcome(params, batch')
                  ELSE IF ~CanTakeLast(batch') THEN "IndexError"
                  ELSE IF ~Assigned(estimate') THEN "ValueError"
                  ELSE "returned"
    /\ pc' = "done"
    /\ UNCHANGED Arguments

european_call_price ==
    /\ pc = "call"
    /\ op = "european_call_price"
    /\ outcome' = AnalyticOutcome(params)
    /\ estimate' = IF AnalyticOutcome(params) = "returned"
                   THEN EuropeanFormula(params, K) ELSE NoArray
    /\ pc' = "done"
    /\ UNCHANGED <<Arguments, normals, TrajectoryLocals, matched, batch,
                   hit_barrier, payoff>>

barrier_call_price ==
    /\ pc = "call"
    /\ op = "barrier_call_price"
    /\ outcome' = AnalyticOutcome(params)
    /\ estimate' = IF AnalyticOutcome(params) = "returned"
                   THEN BarrierFormula(params, K, H) ELSE NoArray
    /\ pc' = "done"
    /\ UNCHANGED <<Arguments, normals, TrajectoryLocals, matched, batch,
                   hit_barrier, payoff>>

Next ==
    \/ get_samples_final_value
    \/ get_samples_trajectory
    \/ MC_european_call_price
    \/ MC_barrier_call_price
    \/ european_call_price
    \/ barrier_call_price

\* every operation
Init == InitCall(Ops, {"scalar", "array", "partial"}, {-1, 1})

Spec == Init /\ [][Next]_vars

\* the terminal-value sampler and its estimator
InitFinal == InitCall(TerminalOps, {"scalar", "array"}, {-1, 0, 1})

NextFinal ==
    \/ get_samples_final_value
    \/ MC_european_call_price

SpecFinal == InitFinal /\ [][NextFinal]_vars

\* the trajectory sampler and its estimator
InitTrajectory == InitCall(TrajectoryOps, {"scalar", "array"}, {-1, 1})

NextTrajectory ==
    \/ get_samples_trajectory
    \/ MC_barrier_call_price

SpecTrajectory == InitTrajectory /\ [][NextTrajectory]_vars

-----------------------------------------------------------------------------
(* The trajectory sampler and the barrier estimator, checked under         *)
(* SpecTrajectory.                                                         *)

\* the call ended by returning
Returned == pc = "done" /\ outcome = "returned"

\* C1: whatever the shape, the flags and the variates drawn, every entry of
\* the batch get_samples_trajectory returns at time index 0 is S0
TimeZeroIsS0 ==
    (Returned /\ op = "get_samples_trajectory") =>
        \A idx \in Indices(batch.shape) :
            idx[2] = 1 => batch.data[idx] = At(params["S0"], idx)

\* C1 happens: a batch built with both variance reductions is returned, and
\* at a later time index an entry is no longer S0
TimeZeroIsS0Witness ==
    /\ Returned /\ op = "get_samples_trajectory"
    /\ antithetic /\ moment_matching
    /\ \E idx \in Indices(batch.shape) :
          idx[2] = 2 /\ batch.data[idx] # At(params["S0"], idx)

\* S0 * exp(r * T * k / n_intervals) at index t of a batch without axis 0,
\* k = t[1] - 1 being the time index
Forward(t) ==
    FMul[At(params["S0"], t),
         Exp[FDiv[FMul[FMul[At(params["r"], t), At(params["T"], t)], FInt(t[1] - 1)],
                  FInt(n_samples[2])]]]

\* C5: with moment_matching, at every time index k and every index of the
\* outer axes, the mean over axis 0 of the batch get_samples_trajectory
\* returns is S0 * exp(r * T * k / n_intervals), with antithetic or without
MeanIsForward ==
    (Returned /\ op = "get_samples_trajectory" /\ moment_matching) =>
        \A t \in Indices(Tail(batch.shape)) : Mean0(batch).data[t] = Forward(t)

\* C5 happens: a moment-matched batch at a positive rate in which two paths
\* differ at a time index after the start
MeanIsForwardWitness ==
    /\ Returned /\ op = "get_samples_trajectory" /\ moment_matching
    /\ \E idx \in Indices(batch.shape) :
          /\ idx[1] = 1 /\ idx[2] = 2 /\ batch.shape[1] >= 2
          /\ At(params["r"], idx)[1] > 0
          /\ batch.data[idx] # batch.data[[idx EXCEPT ![1] = 2]]

\* the path of index t in the batch of MC_barrier_call_price has a value
\* strictly below the barrier at some time index, first and last included
BelowBarrier(t) ==
    \E j \in 1..batch.shape[2] : FLt[batch.data[AtTime(t, j)], H]

\* max(S_last - K, 0) for the path of index t
CallAtMaturity(t) ==
    FMax[FSub[batch.data[AtTime(t, batch.shape[2])], K], FInt(0)]

\* MC_barrier_call_price came to compute its payoffs
PayoffsComputed ==
    pc = "done" /\ op = "MC_barrier_call_price" /\ Assigned(payoff)

\* C2: the payoff of a path is 0 when the path is strictly below H at some
\* time index and max(S_last - K, 0) otherwise, a path that only touches H
\* counting as not knocked out
KnockOutRule ==
    PayoffsComputed =>
        \A t \in Indices(payoff.shape) :
            payoff.data[t] = IF BelowBarrier(t) THEN FInt(0) ELSE CallAtMaturity(t)

\* C2 happens: a path touches H, is never below it, and is paid
KnockOutRuleWitness ==
    /\ PayoffsComputed
    /\ \E t \in Indices(payoff.shape) :
          /\ \E j \in 1..batch.shape[2] : batch.data[AtTime(t, j)] = H
          /\ ~BelowBarrier(t)
          /\ FLt[FInt(0), payoff.data[t]]

\* the payoffs of the European call on the last time slice of the batch
CallOnLast ==
    [shape |-> DropAxis1(batch.shape),
     data |-> [t \in Indices(DropAxis1(batch.shape)) |-> CallAtMaturity(t)]]

\* x <= y
FLeq(x, y) == ~FLt[y, x]

\* C10: a path's payoff is between 0 and its European payoff, so the barrier
\* estimate is between 0 and the discounted mean of the European payoffs of
\* the same batch; the two are equal when no path is below H, and the
\* estimate is 0 when S0 < H
BarrierBelowEuropean ==
    (Returned /\ op = "MC_barrier_call_price") =>
        /\ \A t \in Indices(payoff.shape) :
              FLeq(FInt(0), payoff.data[t]) /\ FLeq(payoff.data[t], CallAtMaturity(t))
        /\ \A idx \in Indices(estimate.shape) :
              /\ FLeq(FInt(0), estimate.data[idx])
              /\ FLeq(estimate.data[idx], DiscountedMean(params, CallOnLast).data[idx])
        /\ (\A t \in Indices(payoff.shape) : ~BelowBarrier(t)) =>
              estimate = DiscountedMean(params, CallOnLast)
        /\ (\A i \in Indices(params["S0"].shape) : FLt[params["S0"].data[i], H]) =>
              \A idx \in Indices(estimate.shape) : estimate.data[idx] = FInt(0)

\* C10 happens: one path is knocked out above the strike and another is
\* paid, so the estimate is strictly between 0 and the European one
BarrierBelowEuropeanWitness ==
    /\ Returned /\ op = "MC_barrier_call_price"
    /\ \E idx \in Indices(estimate.shape) :
          /\ FLt[FInt(0), estimate.data[idx]]
          /\ FLt[estimate.data[idx], DiscountedMean(params, CallOnLast).data[idx]]

-----------------------------------------------------------------------------
(* The variance reductions of the terminal sampler, checked under          *)
(* SpecFinal.  A rescaled variate is num / sqrt(sq), sq being the same     *)
(* along axis 0: the mean of a column is (mean of the num) / sqrt(sq) and  *)
(* its variance is (variance of the num) / sq.                             *)

\* the numerators of the rescaled variates
Numerators(A) ==
    [shape |-> A.shape,
     data |-> [idx \in Indices(A.shape) |-> A.data[idx].num]]

\* the rescaled variates along axis 0 at index t of the other axes have
\* empirical mean 0 and empirical standard deviation 1
MeanZeroStdOne(t) ==
    /\ \A i \in 1..matched.shape[1] :
          /\ matched.data[<<i>> \o t].sq = matched.data[<<1>> \o t].sq
          /\ matched.data[<<i>> \o t].sq[1] # 0
    /\ Mean0(Numerators(matched)).data[t] = FInt(0)
    /\ Var0(Numerators(matched)).data[t] = matched.data[<<1>> \o t].sq

\* the variates along axis 0 at index t, after the antithetic step, are all
\* the same: their standard deviation is 0
Constant(t) ==
    \A i \in 1..normals.shape[1] : normals.data[<<i>> \o t] = normals.data[<<1>> \o t]

\* get_samples_final_value ran its moment matching step
Rescaled == pc = "done" /\ op \in TerminalOps /\ moment_matching

DrawnMeanSquare(t) ==
    FDiv[FSum([i \in 1..n_samples[1] |->
                 FMul[rng.data[<<i>> \o t], rng.data[<<i>> \o t]]], n_samples[1]),
         FInt(n_samples[1])]

\* C9: with antithetic and moment_matching, the moment matching is computed
\* over the doubled batch of 2N values; the mean it subtracts is 0 at every
\* index of the other axes, so centring changes no value; and every value
\* is divided by the standard deviation of the doubled batch
BothInSequence ==
    (Rescaled /\ antithetic) =>
        /\ matched.shape = <<2 * n_samples[1]>> \o Tail(n_samples)
        /\ \A t \in Indices(Tail(normals.shape)) : Mean0(normals).data[t] = FInt(0)
        /\ \A idx \in Indices(matched.shape) :
              /\ matched.data[idx].num =
                    IF idx[1] <= n_samples[1] THEN rng.data[idx]
                    ELSE FNeg[rng.data[[idx EXCEPT ![1] = @ - n_samples[1]]]]
              /\ matched.data[idx].sq = DrawnMeanSquare(Tail(idx))

\* C9 happens: both flags set, and a column whose doubled batch has a
\* standard deviation other than 1 and 0, so that the division shows
BothInSequenceWitness ==
    /\ Rescaled /\ antithetic /\ n_samples[1] = 2
    /\ \E idx \in Indices(matched.shape) :
          /\ matched.data[idx].sq = <<1, 2>>
          /\ matched.data[idx].num = FInt(-1)

-----------------------------------------------------------------------------
(* What holds of every operation, checked under Spec.                      *)

\* the operation drew variates: the samplers and the two estimators
Sampled == pc = "done" /\ op \in TerminalOps \cup TrajectoryOps

\* C6: with antithetic, the variates the exponential is applied to have an
\* axis 0 twice as long as requested, the other axes as requested; the
\* first half is the variates drawn and entry N+i is minus entry i; a
\* batch that is returned has 2N entries along axis 0
AntitheticPairs ==
    (Sampled /\ antithetic) =>
        /\ normals.shape = <<2 * n_samples[1]>> \o Tail(n_samples)
        /\ \A idx \in Indices(n_samples) :
              /\ normals.data[idx] = rng.data[idx]
              /\ normals.data[[idx EXCEPT ![1] = @ + n_samples[1]]] = FNeg[rng.data[idx]]
        /\ Assigned(batch) => batch.shape[1] = 2 * n_samples[1]
        /\ (Assigned(batch) /\ op \in TerminalOps /\ ~moment_matching) =>
              \A idx \in Indices(batch.shape) :
                  batch.data[idx].z.num = At(normals, idx)

\* C6 happens: get_samples_trajectory returns an antithetic batch of two
\* requested draws, of which one is negative and one positive
AntitheticPairsWitness ==
    /\ Returned /\ op = "get_samples_trajectory" /\ antithetic
    /\ n_samples[1] = 2
    /\ \E idx \in Indices(n_samples) :
          /\ idx[1] = 1 /\ rng.data[idx] = FInt(-1)
          /\ rng.data[[idx EXCEPT ![1] = 2]] = FInt(1)

\* C7: an operation called with a dictionary that lacks one of S0, r, sigma
\* and T ends in a KeyError that reaches the caller, without a batch and
\* without an estimate
MissingKeyRaises ==
    (pc = "done" /\ ~HasKeys(params)) =>
        /\ outcome = "KeyError"
        /\ ~Assigned(batch)
        /\ ~Assigned(estimate)

\* C7 happens: MC_barrier_call_price, whose sampler looks the keys up, is
\* called without sigma
MissingKeyRaisesWitness ==
    /\ pc = "done" /\ op = "MC_barrier_call_price"
    /\ DOMAIN params = Keys \ {"sigma"}
    /\ outcome = "KeyError"

\* the axis of the parameter sets: axis 2 of a terminal batch, axis 3 of a
\* trajectory batch (here counted from 1)
ParamAxis(o) == IF o \in TerminalOps THEN 3 ELSE 4

\* the parameter a is a scalar or an array over the requested parameter axis
FitsParamAxis(a) ==
    \/ a.shape = <<>>
    \/ Len(n_samples) >= ParamAxis(op) /\ a.shape = <<n_samples[ParamAxis(op)]>>

\* C8: a sampler given a parameter array whose shape is not that of the
\* parameter axis of the requested shape fails with a dimensionality error
ShapeMismatchRaises ==
    (pc = "done" /\ op \in SamplerOps /\ HasKeys(params)
       /\ \E k \in Keys : ~FitsParamAxis(params[k])) =>
        outcome = "ValueError"

\* C8 fails: get_samples_final_value, asked for 2 draws of 2 variance
\* estimates with S0 an array of 2 values, returns a batch in which S0
\* varies along the variance-estimate axis
ShapeMismatchBroadcast ==
    /\ Returned /\ op = "get_samples_final_value" /\ n_samples = <<2, 2>>
    /\ params["S0"].shape = <<2>>
    /\ batch.shape = <<2, 2>>
    /\ batch.data[<<1, 1>>].scale # batch.data[<<1, 2>>].scale

\* the call is one the operations document: the dictionary is complete and
\* every parameter fits the parameter axis
ValidCall == HasKeys(params) /\ \A k \in Keys : FitsParamAxis(params[k])

\* C3: on a valid call MC_european_call_price returns an estimate of the
\* requested shape without axis 0, and MC_barrier_call_price, from 2 axes
\* on, one of the requested shape without axis 0 and the time axis
EstimateKeepsOuterAxes ==
    (pc = "done" /\ ValidCall) =>
        /\ op = "MC_european_call_price" =>
              outcome = "returned" /\ estimate.shape = Tail(n_samples)
        /\ op = "MC_barrier_call_price" =>
              outcome = "returned" /\ estimate.shape = Tail(Tail(n_samples))

\* C3 fails: MC_barrier_call_price on a valid shape of 2 axes ends in the
\* IndexError of samples[:, -1, :], the batch having been sampled
TwoAxesIndexError ==
    /\ pc = "done" /\ op = "MC_barrier_call_price" /\ ValidCall
    /\ Len(n_samples) = 2
    /\ Assigned(batch) /\ outcome = "IndexError"

====
